---- MODULE Spec2Model ----
(***************************************************************************)
(* Model of homework.py: a bot that polls the review-status API, validates *)
(* the response, translates every work item into a message and sends it    *)
(* through Telegram, forever, sleeping RETRY_PERIOD between iterations.    *)
(*                                                                         *)
(* Python values are dynamically typed; a JSON scalar is modelled as a     *)
(* tagged record [t |-> type, v |-> number] so that `!=` and isinstance    *)
(* behave as in Python.  Cyrillic literals are transliterated.             *)
(***************************************************************************)
EXTENDS Integers, Sequences, FiniteSets, TLC

\* ------------------------------------------------------------------ bounds
MaxItems == 2      \* longest `homeworks` list the server returns
MaxDate == 2       \* largest `current_date` the server returns

\* ------------------------------------------------------- program constants
POLLING_REFRESH_PERIOD_SECONDS == 600
RETRY_PERIOD == POLLING_REFRESH_PERIOD_SECONDS

\* ---------------------------------------------------------- Python values
IntV(n) == [t |-> "int", v |-> n]
NoneV == [t |-> "NoneType", v |-> 0]
StrV == [t |-> "str", v |-> 0]
Unbound == [t |-> "unbound", v |-> 0]

IsInt(x) == x.t = "int"

\* values the server may put in (or leave out of) `current_date`
DateValues == {NoneV, StrV} \cup {IntV(n) : n \in -1..MaxDate}

\* dict.get on a missing key and a JSON null both give None
None == "<None>"
Falsy(s) == s \in {None, ""}

HOMEWORK_VERDICTS ==
    [approved |-> "Rabota proverena: revyueru vsyo ponravilos. Ura!",
     reviewing |-> "Rabota vzyata na proverku revyuerom.",
     rejected |-> "Rabota proverena: u revyuera est zamechaniya."]

VerdictsGet(status) ==
    IF status \in DOMAIN HOMEWORK_VERDICTS THEN HOMEWORK_VERDICTS[status]
    ELSE None

\* work items of the model: name empty or present; status absent, known
\* or undocumented
ItemNames == {"", "hw1"}
ItemStatuses == {None, "approved", "reviewing", "archived"}
WorkItems == [homework_name : ItemNames, status : ItemStatuses]

RECURSIVE SeqsUpTo(_, _)
SeqsUpTo(S, n) ==
    IF n = 0 THEN {<< >>}
    ELSE LET shorter == SeqsUpTo(S, n - 1)
         IN shorter \cup {Append(s, e) : s \in {q \in shorter : Len(q) = n - 1}, e \in S}

ItemLists == SeqsUpTo(WorkItems, MaxItems)

\* ------------------------------------------------------------- payloads
\* A decoded body: type is the Python type of the decoded JSON, size its
\* len(), and for a dict whether it has the key `homeworks`, whether that
\* value is a list, the list, and the value of .get('current_date').
Body(type, size, has, islist, hw, date) ==
    [type |-> type, size |-> size, has_homeworks |-> has,
     homeworks_is_list |-> islist, homeworks |-> hw, current_date |-> date]

NoBody == Body("none", 0, FALSE, FALSE, << >>, NoneV)

MalformedBodies ==
    { Body("NoneType", 0, FALSE, FALSE, << >>, NoneV),     \* null
      Body("dict", 0, FALSE, FALSE, << >>, NoneV),         \* {}
      Body("list", 1, FALSE, FALSE, << >>, NoneV),         \* [1]
      Body("dict", 1, FALSE, FALSE, << >>, IntV(1)),       \* {"current_date": 1}
      Body("dict", 2, TRUE, FALSE, << >>, IntV(1)) }       \* {"homeworks": "not-a-list", "current_date": 1}

ShapedBodies ==
    { Body("dict", 2, TRUE, TRUE, hw, d) : hw \in ItemLists, d \in DateValues }

Bodies == MalformedBodies \cup ShapedBodies

\* what requests.get and response.json() can do
NetOutcomes == {"ok", "connection_error", "not_200", "bad_json"}

\* what bot.send_message can do: return, raise ApiException, or raise
\* anything else (telebot lets requests' exceptions through)
DeliverOutcomes == {"ok", "ApiException", "ConnectionError"}

\* ------------------------------------------------------------ exceptions
NoExc == "<no exception>"
ExcInstance(cls, msg) == [instance |-> TRUE, cls |-> cls, msg |-> msg]
ExcClass(cls) == [instance |-> FALSE, cls |-> cls, msg |-> ""]
NoError == ExcInstance(NoExc, "")
ApiException == ExcClass("ApiException")

\* the outcome of a call: a returned value or a raised exception
Raise(cls, msg) == [raised |-> cls, msg |-> msg]
Return(val) == [raised |-> NoExc, value |-> val]
Raised(r) == r.raised /= NoExc

\* a call of one of the functions with its arguments (unused ones at rest)
Call(fn, timestamp, net, response, homework) ==
    [fn |-> fn, timestamp |-> timestamp, net |-> net, response |-> response,
     homework |-> homework]
NoItem == [homework_name |-> None, status |-> None]
NoCall == Call("none", Unbound, "ok", NoBody, NoItem)
NotCalled == [raised |-> "<not called>"]

\* ---------------------------------------------------------------- state
VARIABLES
    pc,                        \* position in main()
    tokens,                    \* which of the three env values are set
    timestamp_1,               \* the cursor: from_date of the next request
    timestamp_2,               \* current_date of the last validated response
    parsed_response_content,   \* result of get_api_answer
    homeworks,                 \* result of check_response
    i,                         \* index of the for loop over homeworks
    error,                     \* exception bound in the except clause
    escaping,                  \* an exception is propagating out of main
    \* ---- history of the current iteration (not program state)
    cursor0,                   \* timestamp_1 when the iteration began
    from_date,                 \* from_date of this iteration's request
    failed_at,                 \* step that raised in this iteration
    attempts,                  \* bot.send_message calls of this iteration
    retry_from,                \* from_date of the preceding iteration if it
                               \* failed in the poll or the validation
    \* ---- what the process has done since it started
    log_critical,              \* logging.critical has been called
    exit_status,               \* exit status of the process once pc = "exited"
    ever_polled,               \* a request has been sent to the API
    ever_attempted,            \* bot.send_message has been called
    slept,                     \* durations of the time.sleep calls since the
                               \* last call of get_api_answer
    first_cycle,               \* no iteration of the loop has finished yet
    \* ---- a single call of one function (used by FunctionSpec only)
    arg,                       \* the function and its argument
    result                     \* what the call returned or raised

fnvars == <<arg, result>>

vars == <<pc, tokens, timestamp_1, timestamp_2, parsed_response_content,
          homeworks, i, error, escaping, cursor0, from_date, failed_at,
          attempts, retry_from, log_critical, exit_status, ever_polled,
          ever_attempted, slept, first_cycle, arg, result>>

TokenNames == {"PRACTICUM_TOKEN", "TELEGRAM_TOKEN", "TELEGRAM_CHAT_ID"}

Init ==
    /\ pc = "check_tokens"
    /\ tokens \in [TokenNames -> BOOLEAN]
    /\ timestamp_1 = Unbound
    /\ timestamp_2 = Unbound
    /\ parsed_response_content = NoBody
    /\ homeworks = << >>
    /\ i = 0
    /\ error = NoError
    /\ escaping = FALSE
    /\ cursor0 = Unbound
    /\ from_date = Unbound
    /\ failed_at = "none"
    /\ attempts = << >>
    /\ retry_from = Unbound
    /\ log_critical = FALSE
    /\ exit_status = 0
    /\ ever_polled = FALSE
    /\ ever_attempted = FALSE
    /\ slept = << >>
    /\ first_cycle = TRUE
    /\ arg = NoCall
    /\ result = NotCalled

\* ------------------------------------------------------------ functions
\* check_tokens that logs the missing token and goes on
check_tokens_NoRaise(toks) == Return(toks)

\* check_tokens: a bare `raise` with no active exception is a RuntimeError
check_tokens(toks) ==
    IF \E n \in TokenNames : ~toks[n]
    THEN Raise("RuntimeError", "No active exception to reraise")
    ELSE Return(toks)

\* get_api_answer: the handler of RequestException reads error.status_code,
\* which no requests exception has; the JSONDecodeError is logged and then
\* raised again by the second response.json()
get_api_answer(timestamp, net, body) ==
    IF ~IsInt(timestamp)
    THEN Raise("AssertionError", "Data peredana v zapros v nevernom formate.")
    ELSE IF net \in {"connection_error", "not_200"}
    THEN Raise("AttributeError", "object has no attribute 'status_code'")
    ELSE IF net = "bad_json"
    THEN Raise("JSONDecodeError", "Expecting value")
    ELSE Return(body)

Truthy(response) == response.type /= "NoneType" /\ response.size > 0

\* check_response with the type test before the emptiness test
check_response_TypeFirst(response) ==
    IF response.type /= "dict" THEN Raise("TypeError", "")
    ELSE IF ~Truthy(response) THEN Raise("ResponseError", "")
    ELSE IF ~response.has_homeworks THEN Raise("KeyError", "")
    ELSE IF ~response.homeworks_is_list THEN Raise("TypeError", "")
    ELSE Return(response.homeworks)

check_response(response) ==
    IF ~Truthy(response) THEN Raise("ResponseError", "")
    ELSE IF response.type /= "dict" THEN Raise("TypeError", "")
    ELSE IF ~response.has_homeworks THEN Raise("KeyError", "")
    ELSE IF ~response.homeworks_is_list THEN Raise("TypeError", "")
    ELSE Return(response.homeworks)

\* parse_status without the check of the verdict (lines 153-156)
parse_status_NoVerdictCheck(homework) ==
    LET homework_name == homework.homework_name
        homework_status == homework.status
    IN  IF Falsy(homework_name) \/ Falsy(homework_status)
        THEN Raise("KeyError", "V otvete API otsutstvuet imya raboty ili status.")
        ELSE Return("Izmenilsya status proverki raboty \""
                       \o homework_name \o "\". " \o VerdictsGet(homework_status))

\* parse_status with the two checks in the other order
parse_status_VerdictFirst(homework) ==
    LET homework_name == homework.homework_name
        homework_status == homework.status
        verdict == VerdictsGet(homework_status)
    IN  IF Falsy(verdict)
        THEN Raise("ValueError",
                   "Nedokumentirovannyy status domashney raboty - "
                       \o homework_status \o ".")
        ELSE IF Falsy(homework_name) \/ Falsy(homework_status)
        THEN Raise("KeyError", "V otvete API otsutstvuet imya raboty ili status.")
        ELSE Return("Izmenilsya status proverki raboty \""
                       \o homework_name \o "\". " \o verdict)

parse_status(homework) ==
    LET homework_name == homework.homework_name
        homework_status == homework.status
    IN  IF Falsy(homework_name) \/ Falsy(homework_status)
        THEN Raise("KeyError", "V otvete API otsutstvuet imya raboty ili status.")
        ELSE LET verdict == VerdictsGet(homework_status)
             IN  IF Falsy(verdict)
                 THEN Raise("ValueError",
                            "Nedokumentirovannyy status domashney raboty - "
                                \o homework_status \o ".")
                 ELSE Return("Izmenilsya status proverki raboty \""
                                \o homework_name \o "\". " \o verdict)

\* send_message: ApiException is caught and logged, anything else propagates
send_message(outcome) ==
    IF outcome \in {"ok", "ApiException"} THEN Return("sent-or-logged")
    ELSE Raise(outcome, "")

\* one call of bot.send_message as recorded in the iteration's history
Attempt(site, message, outcome) ==
    [site |-> site, text |-> message, outcome |-> outcome]

FailureMessage(err) == "Sboy v rabote programmy: " \o err.msg \o "."

\* ------------------------------------------------------------- actions
\* the interpreter ends with status 1 when an exception leaves main()
UncaughtExitStatus == 1

\* a sleep that is shorter after a failed iteration
SleepDuration_ShortRetry(failed) ==
    IF failed THEN RETRY_PERIOD \div 2 ELSE RETRY_PERIOD

\* the argument of time.sleep in the finally clause: the same after a failed
\* and after a successful iteration
SleepDuration(failed) == RETRY_PERIOD

\* main, line 162: check_tokens() raises out of main when a token is missing
CheckTokens ==
    /\ pc = "check_tokens"
    /\ LET r == check_tokens(tokens)
       IN  IF Raised(r)
           THEN /\ pc' = "exited"
                /\ escaping' = TRUE
                /\ error' = ExcInstance(r.raised, r.msg)
                /\ log_critical' = TRUE
                /\ exit_status' = UncaughtExitStatus
           ELSE /\ pc' = "start"
                /\ UNCHANGED <<escaping, error, log_critical, exit_status>>
    /\ UNCHANGED <<tokens, timestamp_1, timestamp_2, parsed_response_content,
                   homeworks, i, cursor0, from_date, failed_at, attempts,
                   retry_from, ever_polled, ever_attempted, slept,
                   first_cycle>>
    /\ UNCHANGED fnvars

\* main, lines 165-168: the start message, then the two timestamps
StartBot ==
    /\ pc = "start"
    /\ \E o \in DeliverOutcomes :
          LET s == send_message(o)
          IN  IF Raised(s)
              THEN /\ pc' = "exited"
                   /\ escaping' = TRUE
                   /\ error' = ExcInstance(s.raised, s.msg)
                   /\ exit_status' = UncaughtExitStatus
                   /\ UNCHANGED <<timestamp_1, timestamp_2, cursor0>>
              ELSE /\ pc' = "get_api_answer"
                   /\ timestamp_1' = IntV(1)
                   /\ timestamp_2' = IntV(0)
                   /\ cursor0' = IntV(1)
                   /\ UNCHANGED <<escaping, error, exit_status>>
    /\ ever_attempted' = TRUE
    /\ UNCHANGED <<tokens, parsed_response_content, homeworks, i, from_date,
                   failed_at, attempts, retry_from, log_critical, ever_polled,
                   slept, first_cycle>>
    /\ UNCHANGED fnvars

\* Poll that passes timestamp_2 where timestamp_1 belongs
Poll_StaleDate ==
    /\ pc = "get_api_answer"
    /\ \E net \in NetOutcomes, body \in Bodies :
          /\ net /= "ok" => body = CHOOSE b \in MalformedBodies : TRUE
          /\ LET r == get_api_answer(timestamp_2, net, body)
             IN  /\ from_date' = IF IsInt(timestamp_2) THEN timestamp_2 ELSE Unbound
                 /\ IF Raised(r)
                    THEN /\ pc' = "except"
                         /\ error' = ExcInstance(r.raised, r.msg)
                         /\ failed_at' = "poll"
                         /\ UNCHANGED parsed_response_content
                    ELSE /\ pc' = "check_response"
                         /\ parsed_response_content' = r.value
                         /\ UNCHANGED <<error, failed_at>>
    /\ ever_polled' = (ever_polled \/ IsInt(timestamp_2))
    /\ slept' = << >>
    /\ UNCHANGED <<tokens, timestamp_1, timestamp_2, homeworks, i, escaping,
                   cursor0, attempts, retry_from, log_critical, exit_status,
                   ever_attempted, first_cycle>>
    /\ UNCHANGED fnvars

\* main, line 171
Poll ==
    /\ pc = "get_api_answer"
    /\ \E net \in NetOutcomes, body \in Bodies :
          /\ net /= "ok" => body = CHOOSE b \in MalformedBodies : TRUE
          /\ LET r == get_api_answer(timestamp_1, net, body)
             IN  /\ from_date' = IF IsInt(timestamp_1) THEN timestamp_1 ELSE Unbound
                 /\ IF Raised(r)
                    THEN /\ pc' = "except"
                         /\ error' = ExcInstance(r.raised, r.msg)
                         /\ failed_at' = "poll"
                         /\ UNCHANGED parsed_response_content
                    ELSE /\ pc' = "check_response"
                         /\ parsed_response_content' = r.value
                         /\ UNCHANGED <<error, failed_at>>
    /\ ever_polled' = (ever_polled \/ IsInt(timestamp_1))
    /\ slept' = << >>
    /\ UNCHANGED <<tokens, timestamp_1, timestamp_2, homeworks, i, escaping,
                   cursor0, attempts, retry_from, log_critical, exit_status,
                   ever_attempted, first_cycle>>
    /\ UNCHANGED fnvars

\* Validate with the cursor taken from the body before the body is checked
Validate_EarlyAdvance ==
    /\ pc = "check_response"
    /\ timestamp_1' = parsed_response_content.current_date
    /\ LET r == check_response(parsed_response_content)
       IN  IF Raised(r)
           THEN /\ pc' = "except"
                /\ error' = ExcInstance(r.raised, r.msg)
                /\ failed_at' = "validate"
                /\ UNCHANGED <<homeworks, timestamp_2, i>>
           ELSE /\ homeworks' = r.value
                /\ timestamp_2' = parsed_response_content.current_date
                /\ IF r.value /= << >> /\ timestamp_1 /= timestamp_2'
                   THEN pc' = "for" /\ i' = 1
                   ELSE pc' = "finally" /\ UNCHANGED i
                /\ UNCHANGED <<error, failed_at>>
    /\ UNCHANGED <<tokens, parsed_response_content, escaping,
                   cursor0, from_date, attempts, retry_from, log_critical,
                   exit_status, ever_polled, ever_attempted, slept,
                   first_cycle>>
    /\ UNCHANGED fnvars

\* Validate whose guard is only `if homeworks:`
Validate_NoCompare ==
    /\ pc = "check_response"
    /\ LET r == check_response(parsed_response_content)
       IN  IF Raised(r)
           THEN /\ pc' = "except"
                /\ error' = ExcInstance(r.raised, r.msg)
                /\ failed_at' = "validate"
                /\ UNCHANGED <<homeworks, timestamp_2, i>>
           ELSE /\ homeworks' = r.value
                /\ timestamp_2' = parsed_response_content.current_date
                /\ IF r.value /= << >>
                   THEN pc' = "for" /\ i' = 1
                   ELSE pc' = "finally" /\ UNCHANGED i
                /\ UNCHANGED <<error, failed_at>>
    /\ UNCHANGED <<tokens, timestamp_1, parsed_response_content, escaping,
                   cursor0, from_date, attempts, retry_from, log_critical,
                   exit_status, ever_polled, ever_attempted, slept,
                   first_cycle>>
    /\ UNCHANGED fnvars

\* main, lines 172-177
Validate ==
    /\ pc = "check_response"
    /\ LET r == check_response(parsed_response_content)
       IN  IF Raised(r)
           THEN /\ pc' = "except"
                /\ error' = ExcInstance(r.raised, r.msg)
                /\ failed_at' = "validate"
                /\ UNCHANGED <<homeworks, timestamp_2, i>>
           ELSE /\ homeworks' = r.value
                /\ timestamp_2' = parsed_response_content.current_date
                /\ IF r.value /= << >> /\ timestamp_1 /= timestamp_2'
                   THEN pc' = "for" /\ i' = 1
                   ELSE pc' = "finally" /\ UNCHANGED i
                /\ UNCHANGED <<error, failed_at>>
    /\ UNCHANGED <<tokens, timestamp_1, parsed_response_content, escaping,
                   cursor0, from_date, attempts, retry_from, log_critical,
                   exit_status, ever_polled, ever_attempted, slept,
                   first_cycle>>
    /\ UNCHANGED fnvars

\* main, lines 178-181: one iteration of the for loop
ForBody ==
    /\ pc = "for"
    /\ timestamp_1' = timestamp_2
    /\ LET p == parse_status(homeworks[i])
       IN  IF Raised(p)
           THEN /\ pc' = "except"
                /\ error' = ExcInstance(p.raised, p.msg)
                /\ failed_at' = "translate"
                /\ UNCHANGED <<attempts, i>>
           ELSE \E o \in DeliverOutcomes :
                   LET s == send_message(o)
                   IN  /\ attempts' = Append(attempts, Attempt("status", p.value, o))
                       /\ IF Raised(s)
                          THEN /\ pc' = "except"
                               /\ error' = ExcInstance(s.raised, s.msg)
                               /\ failed_at' = "deliver"
                               /\ UNCHANGED i
                          ELSE /\ i' = i + 1
                               /\ pc' = IF i = Len(homeworks) THEN "finally" ELSE "for"
                               /\ UNCHANGED <<error, failed_at>>
    /\ UNCHANGED <<tokens, timestamp_2, parsed_response_content, homeworks,
                   escaping, cursor0, from_date, retry_from, log_critical,
                   exit_status, ever_polled, ever_attempted, slept,
                   first_cycle>>
    /\ UNCHANGED fnvars

\* Except with the comparison of line 184 inverted (== for !=)
Except_Inverted ==
    /\ pc = "except"
    /\ LET message == FailureMessage(error)
       IN  IF error = ApiException
           THEN \E o \in DeliverOutcomes :
                   LET s == send_message(o)
                   IN  /\ attempts' = Append(attempts, Attempt("failure", message, o))
                       /\ IF Raised(s)
                          THEN /\ escaping' = TRUE
                               /\ error' = ExcInstance(s.raised, s.msg)
                          ELSE UNCHANGED <<escaping, error>>
           ELSE UNCHANGED <<attempts, escaping, error>>
    /\ pc' = "finally"
    /\ UNCHANGED <<tokens, timestamp_1, timestamp_2, parsed_response_content,
                   homeworks, i, cursor0, from_date, failed_at, retry_from,
                   log_critical, exit_status, ever_polled, ever_attempted,
                   slept, first_cycle>>
    /\ UNCHANGED fnvars

\* main, lines 182-186: an exception instance never equals the class
Except ==
    /\ pc = "except"
    /\ LET message == FailureMessage(error)
       IN  IF error /= ApiException
           THEN \E o \in DeliverOutcomes :
                   LET s == send_message(o)
                   IN  /\ attempts' = Append(attempts, Attempt("failure", message, o))
                       /\ IF Raised(s)
                          THEN /\ escaping' = TRUE
                               /\ error' = ExcInstance(s.raised, s.msg)
                          ELSE UNCHANGED <<escaping, error>>
           ELSE UNCHANGED <<attempts, escaping, error>>
    /\ pc' = "finally"
    /\ UNCHANGED <<tokens, timestamp_1, timestamp_2, parsed_response_content,
                   homeworks, i, cursor0, from_date, failed_at, retry_from,
                   log_critical, exit_status, ever_polled, ever_attempted,
                   slept, first_cycle>>
    /\ UNCHANGED fnvars

\* main, lines 187-188 and back to line 169: time.sleep(RETRY_PERIOD), then
\* either the pending exception leaves main or the loop starts over.  The
\* locals of the finished iteration are dead (each is assigned again before
\* it is read) and are cleared with the iteration's history.
Sleep ==
    /\ pc = "finally"
    /\ slept' = Append(slept, SleepDuration(failed_at /= "none"))
    /\ IF escaping
       THEN /\ pc' = "exited"
            /\ exit_status' = UncaughtExitStatus
            /\ UNCHANGED <<parsed_response_content, homeworks, i, error,
                           cursor0, from_date, failed_at, attempts, retry_from,
                           first_cycle>>
       ELSE /\ pc' = "get_api_answer"
            /\ first_cycle' = FALSE
            /\ UNCHANGED exit_status
            /\ parsed_response_content' = NoBody
            /\ homeworks' = << >>
            /\ i' = 0
            /\ error' = NoError
            /\ cursor0' = timestamp_1
            /\ retry_from' = IF failed_at \in {"poll", "validate"}
                             THEN from_date ELSE Unbound
            /\ from_date' = Unbound
            /\ failed_at' = "none"
            /\ attempts' = << >>
    /\ UNCHANGED <<tokens, timestamp_1, timestamp_2, escaping, log_critical,
                   ever_polled, ever_attempted>>
    /\ UNCHANGED fnvars

Next ==
    \/ CheckTokens
    \/ StartBot
    \/ Poll
    \/ Validate
    \/ ForBody
    \/ Except
    \/ Sleep

Spec == Init /\ [][Next]_vars

\* the interpreter always takes the next step of main
FairSpec == Spec /\ WF_vars(Next)

\* ------------------------------------------- one call of a single function
\* decoded bodies beyond those the loop is fed: [], "", "abc", and a dict
\* whose only key is `homeworks`
ExtraBodies ==
    { Body("list", 0, FALSE, FALSE, << >>, NoneV),
      Body("str", 0, FALSE, FALSE, << >>, NoneV),
      Body("str", 3, FALSE, FALSE, << >>, NoneV),
      Body("dict", 1, TRUE, FALSE, << >>, NoneV),
      Body("dict", 1, TRUE, TRUE, << >>, NoneV) }

FnResponses == Bodies \cup ExtraBodies

FnItems ==
    [homework_name : {None, "", "hw1", "X"},
     status : {None, "", "approved", "reviewing", "rejected", "archived",
               "Approved"}]

FnCalls ==
    {Call("check_response", Unbound, "ok", r, NoItem) : r \in FnResponses}
    \cup {Call("parse_status", Unbound, "ok", NoBody, h) : h \in FnItems}
    \cup {Call("get_api_answer", t, n, b, NoItem) :
             t \in DateValues, n \in NetOutcomes, b \in MalformedBodies}

FnInit ==
    /\ pc = "call"
    /\ tokens = [n \in TokenNames |-> TRUE]
    /\ timestamp_1 = Unbound
    /\ timestamp_2 = Unbound
    /\ parsed_response_content = NoBody
    /\ homeworks = << >>
    /\ i = 0
    /\ error = NoError
    /\ escaping = FALSE
    /\ cursor0 = Unbound
    /\ from_date = Unbound
    /\ failed_at = "none"
    /\ attempts = << >>
    /\ retry_from = Unbound
    /\ log_critical = FALSE
    /\ exit_status = 0
    /\ ever_polled = FALSE
    /\ ever_attempted = FALSE
    /\ slept = << >>
    /\ first_cycle = TRUE
    /\ arg \in FnCalls
    /\ result = NotCalled

procvars == <<pc, tokens, timestamp_1, timestamp_2, parsed_response_content,
              homeworks, i, error, escaping, cursor0, from_date, failed_at,
              attempts, retry_from, log_critical, exit_status, ever_polled,
              ever_attempted, slept, first_cycle>>

CallCheckResponse ==
    /\ arg.fn = "check_response"
    /\ result = NotCalled
    /\ result' = check_response(arg.response)
    /\ UNCHANGED <<arg, procvars>>

CallParseStatus ==
    /\ arg.fn = "parse_status"
    /\ result = NotCalled
    /\ result' = parse_status(arg.homework)
    /\ UNCHANGED <<arg, procvars>>

CallGetApiAnswer ==
    /\ arg.fn = "get_api_answer"
    /\ result = NotCalled
    /\ result' = get_api_answer(arg.timestamp, arg.net, arg.response)
    /\ UNCHANGED <<arg, procvars>>

FnNext ==
    \/ CallCheckResponse
    \/ CallParseStatus
    \/ CallGetApiAnswer

FunctionSpec == FnInit /\ [][FnNext]_vars

\* ------------------------------------------------- vocabulary of the claims
\* main is inside `while True`
InLoop == pc \in {"get_api_answer", "check_response", "for", "except", "finally"}

\* the iteration has run its try/except and is about to sleep
CycleEnd == pc = "finally"

\* this iteration's poll returned and check_response accepted the body
Validated ==
    /\ pc \in {"for", "except", "finally"}
    /\ parsed_response_content /= NoBody
    /\ failed_at /= "validate"

PollOrValidationFailed == failed_at \in {"poll", "validate"}

FailsTranslation(item) == Raised(parse_status(item))
SomeItemFails == \E k \in DOMAIN homeworks : FailsTranslation(homeworks[k])
AllItemsTranslate == \A k \in DOMAIN homeworks : ~FailsTranslation(homeworks[k])

StatusAttempts == SelectSeq(attempts, LAMBDA a : a.site = "status")
FailureAttempts == SelectSeq(attempts, LAMBDA a : a.site = "failure")
Texts(seq) == [k \in 1..Len(seq) |-> seq[k].text]
Translations == [k \in 1..Len(homeworks) |-> parse_status(homeworks[k]).value]

\* ------------------------------------------------------------------ claims

\* C1: in a cycle where some work item of the validated response fails
\* translation, the cursor after the cycle equals the cursor before it.
C1_CursorKeptOnTranslationFailure ==
    (CycleEnd /\ Validated /\ SomeItemFails) => timestamp_1 = cursor0

\* C2: in a cycle where some work item fails translation, no status
\* notification is delivered, not even for the items before the failing one.
C2_NothingDeliveredOnTranslationFailure ==
    (CycleEnd /\ Validated /\ SomeItemFails)
        => \A k \in DOMAIN attempts :
              ~(attempts[k].site = "status" /\ attempts[k].outcome = "ok")

\* C3: in a cycle whose body validates, whose n items all translate and
\* whose current_date is an integer >= the cursor, exactly n status deliveries
\* are attempted, the k-th for the k-th item, and the cursor becomes
\* current_date.
C3_AllItemsNotifiedAndCursorAdvanced ==
    (/\ CycleEnd /\ Validated /\ AllItemsTranslate
     /\ IsInt(timestamp_2) /\ IsInt(cursor0) /\ timestamp_2.v >= cursor0.v)
        => /\ Texts(StatusAttempts) = Translations
           /\ timestamp_1 = timestamp_2

\* C4: when the poll or the validation fails the cursor keeps its value, and
\* the request of the next cycle carries the from_date of the failed one.
C4_CursorKeptOnPollOrValidationFailure ==
    /\ (InLoop /\ PollOrValidationFailed) => timestamp_1 = cursor0
    /\ (InLoop /\ from_date /= Unbound /\ retry_from /= Unbound)
          => from_date = retry_from

\* C4 witness: a request has been issued in the cycle after a failed one
C4_Witness ==
    /\ pc = "check_response"
    /\ from_date /= Unbound
    /\ retry_from /= Unbound

\* C5: when the poll or the validation fails, the cycle attempts exactly one
\* failure notification and no status notification, and goes on to sleep
\* whether or not that notification was delivered.
C5_OneFailureNotificationThenSleep ==
    /\ [](/\ (pc = "except" /\ PollOrValidationFailed) => attempts = << >>
          /\ (CycleEnd /\ PollOrValidationFailed)
                => (Len(attempts) = 1 /\ attempts[1].site = "failure"))
    /\ [][(pc = "except" /\ PollOrValidationFailed) => pc' = "finally"]_vars

\* C5 witness: a failed poll or validation whose failure notification was
\* itself not delivered, with the cycle about to sleep
C5_Witness ==
    /\ CycleEnd
    /\ PollOrValidationFailed
    /\ Len(attempts) = 1
    /\ attempts[1].outcome /= "ok"

\* C6: the cursor never decreases: within a cycle an integer cursor is never
\* replaced by a smaller integer.
C6_CursorNeverDecreases ==
    (InLoop /\ IsInt(cursor0) /\ IsInt(timestamp_1)) => timestamp_1.v >= cursor0.v

\* C7: in every state of the loop the cursor is a non-negative integer.
C7_CursorIsNonNegativeInteger ==
    InLoop => (IsInt(timestamp_1) /\ timestamp_1.v >= 0)

\* C8: no error raised inside a cycle terminates the loop.
C8_LoopNeverTerminates ==
    ~(pc = "exited" /\ cursor0 /= Unbound)

\* C9: when the delivery of a status notification fails, the other status
\* notifications of the cycle are still attempted once each in order, no
\* failure notification is sent and the cursor advances to current_date.
C9_DeliveryFailureDoesNotAbortCycle ==
    (/\ CycleEnd /\ Validated /\ AllItemsTranslate
     /\ \E k \in DOMAIN attempts :
           attempts[k].site = "status" /\ attempts[k].outcome /= "ok")
        => /\ Texts(StatusAttempts) = Translations
           /\ FailureAttempts = << >>
           /\ timestamp_1 = timestamp_2

\* a validated response whose homeworks list is empty, at the end of its cycle
ValidatedEmpty ==
    /\ CycleEnd
    /\ failed_at = "none"
    /\ parsed_response_content /= NoBody
    /\ homeworks = << >>

TokenMissing == \E n \in TokenNames : ~tokens[n]

C11_MissingTokenStopsBeforeLoop ==
    TokenMissing
        => /\ pc \in {"check_tokens", "exited"}
           /\ ~ever_polled
           /\ ~ever_attempted
           /\ pc = "exited" => (log_critical /\ exit_status /= 0)

\* C11 witness: the process has ended because a token is missing
C11_Witness ==
    /\ TokenMissing
    /\ pc = "exited"

\* C12: every iteration ends with exactly one sleep of RETRY_PERIOD, after a
\* failure as after a success, and get_api_answer is not called again before
\* that sleep.
C12_OneFixedSleepPerCycle ==
    /\ pc \in {"check_response", "for", "except", "finally"} => slept = << >>
    /\ (pc = "get_api_answer" /\ first_cycle) => slept = << >>
    /\ (pc = "get_api_answer" /\ ~first_cycle) => slept = <<RETRY_PERIOD>>
    /\ (pc = "exited" /\ cursor0 /= Unbound) => slept = <<RETRY_PERIOD>>

\* C12 witness: the loop is about to poll again after a failed iteration
C12_Witness ==
    /\ pc = "get_api_answer"
    /\ ~first_cycle
    /\ retry_from /= Unbound
    /\ slept = <<RETRY_PERIOD>>

\* C13: every status notification sent in a cycle is the translation of one
\* work item of that cycle's response, the k-th message of the k-th item,
\* and that item's status is a key of HOMEWORK_VERDICTS.
C13_StatusMessagesComeFromKnownStatuses ==
    InLoop =>
        \A k \in 1..Len(StatusAttempts) :
            /\ k <= Len(homeworks)
            /\ homeworks[k].status \in DOMAIN HOMEWORK_VERDICTS
            /\ ~Falsy(homeworks[k].homework_name)
            /\ StatusAttempts[k].text
                  = "Izmenilsya status proverki raboty \""
                       \o homeworks[k].homework_name \o "\". "
                       \o HOMEWORK_VERDICTS[homeworks[k].status]

\* C13 witness: a status message was delivered in a cycle whose response
\* also holds an item with an undocumented status
C13_Witness ==
    /\ CycleEnd
    /\ \E k \in DOMAIN attempts :
          attempts[k].site = "status" /\ attempts[k].outcome = "ok"
    /\ \E j \in DOMAIN homeworks : homeworks[j].status = "archived"

\* the call of FunctionSpec has been made
Called(fn) == arg.fn = fn /\ result /= NotCalled

\* C14: check_response decides in this order: EmptyResponse (ResponseError)
\* for an empty or absent payload, {} included; NotAnObject (TypeError) for
\* a payload that is no dict; MissingField (KeyError) without `homeworks`;
\* WrongType (TypeError) when `homeworks` is no list; otherwise it returns
\* the list as it is, whatever the items and current_date are.
EmptyOrAbsent(p) == p.type = "NoneType" \/ p.size = 0

ValidateOutcome(p) ==
    IF EmptyOrAbsent(p) THEN "ResponseError"
    ELSE IF p.type /= "dict" THEN "TypeError"
    ELSE IF ~p.has_homeworks THEN "KeyError"
    ELSE IF ~p.homeworks_is_list THEN "TypeError"
    ELSE NoExc

C15_TranslateContract ==
    Called("parse_status")
        => LET name == arg.homework.homework_name
               status == arg.homework.status
           IN  IF name \in {None, ""} \/ status \in {None, ""}
               THEN result.raised = "KeyError"
               ELSE IF status \notin {"approved", "reviewing", "rejected"}
               THEN result.raised = "ValueError"
               ELSE /\ ~Raised(result)
                    /\ result.value = "Izmenilsya status proverki raboty \""
                                        \o name \o "\". "
                                        \o HOMEWORK_VERDICTS[status]

\* C15 witness: an item without a name and with an undocumented status was
\* rejected as incomplete
C15_Witness ==
    /\ Called("parse_status")
    /\ arg.homework.homework_name = None
    /\ arg.homework.status = "archived"
    /\ result.raised = "KeyError"

\* C16: get_api_answer hands every expected outcome to its caller as a value
\* and raises for none of them; only a non-integer timestamp aborts the call.
C16_PollerNeverRaises ==
    (Called("get_api_answer") /\ IsInt(arg.timestamp)) => ~Raised(result)

\* C17: every request carries as from_date the cursor held when the cycle
\* began: the first one the initial value 1, each later one the value the
\* preceding cycle left in timestamp_1.
C17_PollUsesCursorOfCycleStart ==
    /\ (InLoop /\ from_date /= Unbound) => from_date = cursor0
    /\ (InLoop /\ first_cycle /\ from_date /= Unbound) => from_date = IntV(1)

\* C17 witness: a later cycle has sent a request with an advanced cursor
C17_Witness ==
    /\ pc = "check_response"
    /\ ~first_cycle
    /\ from_date = IntV(2)

\* C18: the loop can always recover: no earlier response leaves the loop in
\* a state where the next poll fails whatever the server answers.
C18_LoopCanAlwaysRecover ==
    pc = "get_api_answer"
        => \E net \in NetOutcomes, body \in MalformedBodies :
              ~Raised(get_api_answer(timestamp_1, net, body))

\* C19: a cycle attempts at most one failure notification, after all of its
\* status notifications, and attempts it exactly when an exception reached
\* the except clause of the cycle.
C19_OneFailureNotificationPerRaisingCycle ==
    InLoop
        => /\ Len(FailureAttempts) <= 1
           /\ \A k \in DOMAIN attempts :
                 attempts[k].site = "failure" => k = Len(attempts)
           /\ CycleEnd => (Len(FailureAttempts) = 1 <=> failed_at /= "none")

\* C19 witness: a status notification followed by the failure notification
C19_Witness ==
    /\ CycleEnd
    /\ Len(attempts) = 2
    /\ attempts[1].site = "status"
    /\ attempts[2].site = "failure"

\* C20: a validated response with a non-empty list and a current_date equal
\* to the cursor makes the cycle translate nothing, send nothing and keep
\* the cursor, whatever the items are.
C20_EqualDateSkipsCycle ==
    (CycleEnd /\ Validated /\ homeworks /= << >> /\ timestamp_2 = cursor0)
        => /\ i = 0
           /\ failed_at = "none"
           /\ attempts = << >>
           /\ timestamp_1 = cursor0

\* C20 witness: such a response whose first item could not be translated
C20_Witness ==
    /\ CycleEnd
    /\ Validated
    /\ homeworks /= << >>
    /\ timestamp_2 = cursor0
    /\ FailsTranslation(homeworks[1])

====
